---- MODULE Spec2Model ----
(***************************************************************************)
(* Model of the repair loop of src/src/core/debugger.py (CodeDebugger).    *)
(*                                                                         *)
(* Texts (executor output, file contents, signatures) are sequences of     *)
(* tokens; the token "Traceback" is the marker the code searches for.      *)
(* The executor, the language model, the search and the page fetch are     *)
(* external: each call returns any value of a small set.                   *)
(***************************************************************************)
EXTENDS Integers, Sequences, FiniteSets, TLC

\* ------------------------------------------------------------------ bounds
MaxAttemptsBound == 5
MaxThreshold == 2

\* ------------------------------------------------------- external value sets
FileNames == {"a.py", "b.py"}

\* The target sets a session is started with: the files named on the command
\* line, or the .py files of code_dir.
TargetSets == {<<"a.py">>, <<"a.py", "b.py">>}

\* What one executor run returns (stdout, or stderr with a traceback).
OutClean == <<"out">>
OutE1 == <<"Traceback", "e1">>
ExecutorOutputs == {OutClean, OutE1}

\* File contents: "x" and "y" are source lines, "nl" is surrounding whitespace.
SrcX == <<"x">>
SrcXnl == <<"x", "nl">>
SrcY == <<"y">>

Urls == <<"u1", "u2", "u3">>

\* ---------------------------------------------------------------- state
VARIABLES
    max_attempts,               \* self.max_attempts
    files_to_debug,             \* self.files_to_debug
    enable_internet_search,     \* self.enable_internet_search
    num_search_urls,            \* self.num_search_urls
    internet_search_threshold,  \* self.internet_search_threshold
    attempt_count,              \* self.attempt_count
    constant_error_count,       \* self.constant_error_count
    last_error_signature,       \* self.last_error_signature
    error_exists,               \* local of debug()
    error_messages,             \* the outputs of the runs of lines 253-256
    current_error_signature,    \* local of debug()
    escalation,                 \* what the escalation branch did this iteration
    full_prompt_with_error,     \* local of debug()
    llm_response,               \* local of debug()
    code_changes,               \* local of debug()
    code_before_change,         \* local of debug()
    change_summary,             \* local of debug()
    disk,                       \* the files of code_dir
    log,                        \* the session log, from the line that opened
                                \* the current iteration on
    exception,                  \* the exception that ended debug(), if any
    pc,                         \* position in debug()
    executed,                   \* history: the outputs the executor has returned
    streak,                     \* history: the current run of equal signatures
    escalated_at                \* history: the attempts whose trigger fired

config == <<max_attempts, files_to_debug, enable_internet_search,
            num_search_urls, internet_search_threshold>>
attempt_state == <<attempt_count, constant_error_count, last_error_signature>>
locals == <<error_exists, error_messages, current_error_signature, escalation,
            full_prompt_with_error, llm_response, code_changes,
            code_before_change, change_summary>>
history == <<executed, streak, escalated_at>>
vars == <<config, attempt_state, locals, disk, log, exception, pc, history>>

\* ------------------------------------------------------------- helpers

\* "Traceback" in error_message
HasTraceback(text) == \E i \in 1..Len(text) : text[i] = "Traceback"

\* current_error_signature after the loop over the first n outputs
RECURSIVE SignatureLoop(_, _)
SignatureLoop(msgs, n) ==
    IF n = 0 THEN <<>>
    ELSE IF HasTraceback(msgs[n])
         THEN SignatureLoop(msgs, n - 1) \o msgs[n]
         ELSE SignatureLoop(msgs, n - 1)

RECURSIVE SignatureOfEveryOutput(_)
SignatureOfEveryOutput(msgs) ==
    IF msgs = <<>> THEN <<>> ELSE Head(msgs) \o SignatureOfEveryOutput(Tail(msgs))

ErrorSignature(msgs) == SignatureLoop(msgs, Len(msgs))

\* str.strip(): drops the leading and the trailing whitespace tokens
Strip(text) ==
    LET keep == {i \in 1..Len(text) : text[i] # "nl"}
        lo == CHOOSE i \in keep : \A j \in keep : i <= j
        hi == CHOOSE i \in keep : \A j \in keep : j <= i
    IN IF keep = {} THEN <<>> ELSE SubSeq(text, lo, hi)

\* A Python dict as the sequence of its (key, value) pairs in insertion order.
DictKeys(d) == {d[i][1] : i \in 1..Len(d)}

DictGet(d, k) == d[CHOOSE i \in 1..Len(d) : d[i][1] = k][2]

\* A put that keeps the value a key already has.
DictPutKeepFirst(d, k, v) ==
    IF k \in DictKeys(d) THEN d ELSE Append(d, <<k, v>>)

\* d[k] = v: a key already present keeps its place and takes the new value
DictPut(d, k, v) ==
    IF k \in DictKeys(d)
    THEN [i \in 1..Len(d) |-> IF d[i][1] = k THEN <<k, v>> ELSE d[i]]
    ELSE Append(d, <<k, v>>)

\* One stretch of a model reply: a block the pattern matches ("# name", a
\* python fence and its code), or text it does not match.
Segments ==
    {[matches |-> TRUE, name |-> "a.py", code |-> SrcXnl],
     [matches |-> TRUE, name |-> "a.py", code |-> SrcY],
     [matches |-> TRUE, name |-> "b.py", code |-> SrcY],
     [matches |-> FALSE, name |-> "a.py", code |-> SrcY]}

MaxBlocks == 2

\* The largest num_search_urls of the runs of _fetch_internet_content alone.
MaxNumUrls == 4

Responses == UNION {[1..n -> Segments] : n \in 0..MaxBlocks}

\* {filename: code.strip() for filename, code in matches}
RECURSIVE ExtractLoop(_, _)
ExtractLoop(resp, n) ==
    IF n = 0 THEN <<>>
    ELSE IF resp[n].matches
         THEN DictPut(ExtractLoop(resp, n - 1), resp[n].name, Strip(resp[n].code))
         ELSE ExtractLoop(resp, n - 1)

\* A parse that takes every stretch of the reply for a block.
RECURSIVE ExtractEveryLoop(_, _)
ExtractEveryLoop(resp, n) ==
    IF n = 0 THEN <<>>
    ELSE DictPut(ExtractEveryLoop(resp, n - 1), resp[n].name, Strip(resp[n].code))

ExtractEverySegment(resp) == ExtractEveryLoop(resp, Len(resp))

ExtractCodeFromLlmResponse(resp) == ExtractLoop(resp, Len(resp))

\* One entry of all_errors (lines 133-138)
ErrorReport(name, message) ==
    IF HasTraceback(message)
    THEN [file |-> name, clean |-> FALSE, text |-> message]
    ELSE [file |-> name, clean |-> TRUE, text |-> <<>>]

\* The outputs of one pass of the executor over the target set.
ExecutorRuns == [1..Len(files_to_debug) -> ExecutorOutputs]

\* An assembler that puts the research section after the failure reports.
ConstructPromptInternetLast(internet_content, runs) ==
    <<[section |-> "tree", body |-> DOMAIN disk],
      [section |-> "code",
       body |-> [i \in 1..Len(files_to_debug) |->
                    <<files_to_debug[i], disk[files_to_debug[i]]>>]],
      [section |-> "errors",
       body |-> [i \in 1..Len(files_to_debug) |->
                    ErrorReport(files_to_debug[i], runs[i])]]>>
    \o (IF internet_content # <<>>
        THEN <<[section |-> "internet", body |-> internet_content]>>
        ELSE <<>>)

\* An assembler that adds the research section even when there is no content.
ConstructPromptAlwaysInternet(internet_content, runs) ==
    <<[section |-> "internet", body |-> internet_content],
      [section |-> "tree", body |-> DOMAIN disk],
      [section |-> "code",
       body |-> [i \in 1..Len(files_to_debug) |->
                    <<files_to_debug[i], disk[files_to_debug[i]]>>]],
      [section |-> "errors",
       body |-> [i \in 1..Len(files_to_debug) |->
                    ErrorReport(files_to_debug[i], runs[i])]]>>

\* _construct_prompt_for_llm: the sections of the prompt, in order. `runs` are
\* the outputs of the executor runs the assembler itself makes (line 134).
ConstructPrompt(internet_content, runs) ==
    (IF internet_content # <<>>
     THEN <<[section |-> "internet", body |-> internet_content]>>
     ELSE <<>>)
    \o <<[section |-> "tree", body |-> DOMAIN disk],
         [section |-> "code",
          body |-> [i \in 1..Len(files_to_debug) |->
                       <<files_to_debug[i], disk[files_to_debug[i]]>>]],
         [section |-> "errors",
          body |-> [i \in 1..Len(files_to_debug) |->
                       ErrorReport(files_to_debug[i], runs[i])]]>>

NoPrompt == <<>>

Msg(m, n) == [msg |-> m, n |-> n]

NoException == [type |-> "none", file |-> "none"]

\* The names of the sections of a prompt, in order.
SectionNames(prompt) == [i \in 1..Len(prompt) |-> prompt[i].section]

\* What one iteration's escalation did: ran, the sections of the prompt of the
\* query generation, the reply to it, whether a query came out of the reply,
\* and the fields of FetchInternetContent below.
NoEscalation == [ran |-> FALSE, query_sections |-> <<>>, reply |-> <<>>,
                 query |-> FALSE,
                 searched |-> FALSE, none |-> FALSE, urls |-> <<>>,
                 fetched |-> <<>>, pages |-> <<>>, content |-> <<>>]

\* Lines 204-209: the replies of the model to the query generation, and the
\* search of r'search_query: "(.*?)"' in one of them.
QueryReplies == {<<"search_query", "q">>, <<"prose">>}

HasSearchQuery(reply) == reply[1] = "search_query"

NoStreak == [len |-> 0, escalations |-> 0]

RunSet(runs) == {runs[i] : i \in DOMAIN runs}

\* What internet_search returns: None when the search raised, else a list.
SearchResults ==
    {[none |-> TRUE, urls |-> <<>>]}
        \cup {[none |-> FALSE, urls |-> SubSeq(Urls, 1, k)] : k \in 0..Len(Urls)}

\* urls[:num_urls], a Python slice: a negative num_urls counts from the end.
FirstUrls(urls, num_urls) ==
    IF num_urls >= 0
    THEN SubSeq(urls, 1, IF num_urls < Len(urls) THEN num_urls ELSE Len(urls))
    ELSE SubSeq(urls, 1, IF Len(urls) + num_urls > 0 THEN Len(urls) + num_urls ELSE 0)

\* What fetching one URL does: the text of the page, or the fetch raises.
PageTexts == {"page1", "page2"}
FetchOutcomes == PageTexts \cup {"raise"}

\* Lines 222-228: the URLs the loop of line 230 goes over.
UrlsToFetch(enabled, found, num_urls) ==
    IF enabled /\ ~found.none /\ found.urls # <<>>
    THEN FirstUrls(found.urls, num_urls)
    ELSE <<>>

\* A fetch loop that a failing fetch ends.
RECURSIVE ContentUntilFailure(_, _, _)
ContentUntilFailure(urls, pages, n) ==
    IF n = 0 THEN <<>>
    ELSE LET before == ContentUntilFailure(urls, pages, n - 1)
         IN IF pages[n] # "raise" /\ \A i \in 1..(n - 1) : pages[i] # "raise"
            THEN Append(before, [url |-> urls[n], text |-> pages[n]])
            ELSE before

\* combined_content after the loop over the first n URLs (lines 230-237);
\* pages[i] is the outcome of fetching urls[i].
RECURSIVE CombinedContent(_, _, _)
CombinedContent(urls, pages, n) ==
    IF n = 0 THEN <<>>
    ELSE IF pages[n] # "raise"
         THEN Append(CombinedContent(urls, pages, n - 1),
                     [url |-> urls[n], text |-> pages[n]])
         ELSE CombinedContent(urls, pages, n - 1)

\* _fetch_internet_content (lines 212-239): whether a search was made, whether
\* it returned None, its URLs, the URLs fetched, the outcome of each fetch and
\* the combined content.
FetchInternetContent(enabled, found, pages, num_urls) ==
    LET urls == UrlsToFetch(enabled, found, num_urls)
    IN [searched |-> enabled,
        none |-> enabled /\ found.none,
        urls |-> IF enabled THEN found.urls ELSE <<>>,
        fetched |-> urls,
        pages |-> pages,
        content |-> CombinedContent(urls, pages, Len(urls))]

\* ----------------------------------------------------------------- Init

\* A start in which error_exists is what a first look at the files found.
InitErrorUnknown ==
    /\ max_attempts \in 0..MaxAttemptsBound
    /\ files_to_debug \in TargetSets
    /\ enable_internet_search \in BOOLEAN
    /\ num_search_urls = 1
    /\ internet_search_threshold \in 0..MaxThreshold
    /\ attempt_count = 0
    /\ constant_error_count = 0
    /\ last_error_signature = <<>>
    /\ error_exists \in BOOLEAN
    /\ error_messages = <<>>
    /\ current_error_signature = <<>>
    /\ escalation = NoEscalation
    /\ full_prompt_with_error = NoPrompt
    /\ llm_response = <<>>
    /\ code_changes = <<>>
    /\ code_before_change = <<>>
    /\ change_summary = <<>>
    /\ \E others \in SUBSET (FileNames \ RunSet(files_to_debug)) :
        disk = [f \in RunSet(files_to_debug) \cup others |-> SrcXnl]
    /\ log = <<>>
    /\ exception = NoException
    /\ pc = "loop"
    /\ executed = {}
    /\ streak = NoStreak
    /\ escalated_at = {}

\* The state after CodeDebugger.__init__ (lines 35-47). The target files exist
\* in code_dir; a file outside the target set may exist or not.
Init ==
    /\ max_attempts \in 0..MaxAttemptsBound
    /\ files_to_debug \in TargetSets
    /\ enable_internet_search \in BOOLEAN
    /\ num_search_urls = 1
    /\ internet_search_threshold \in 0..MaxThreshold
    /\ attempt_count = 0
    /\ constant_error_count = 0
    /\ last_error_signature = <<>>
    /\ error_exists = TRUE
    /\ error_messages = <<>>
    /\ current_error_signature = <<>>
    /\ escalation = NoEscalation
    /\ full_prompt_with_error = NoPrompt
    /\ llm_response = <<>>
    /\ code_changes = <<>>
    /\ code_before_change = <<>>
    /\ change_summary = <<>>
    /\ \E others \in SUBSET (FileNames \ RunSet(files_to_debug)) :
        disk = [f \in RunSet(files_to_debug) \cup others |-> SrcXnl]
    /\ log = <<>>
    /\ exception = NoException
    /\ pc = "loop"
    /\ executed = {}
    /\ streak = NoStreak
    /\ escalated_at = {}

\* -------------------------------------------------------------- actions

\* A loop test that allows one iteration more than the budget.
LoopOneMore == error_exists /\ attempt_count <= max_attempts

\* A loop test that looks at the budget only.
LoopWhileBudget == attempt_count < max_attempts

\* Lines 248-250: the loop test holds; the iteration starts.
LoopCondition == error_exists /\ attempt_count < max_attempts

BeginAttempt ==
    /\ pc = "loop"
    /\ LoopCondition
    /\ attempt_count' = attempt_count + 1
    /\ log' = <<Msg("attempt", attempt_count + 1)>>
    /\ error_messages' = <<>>
    /\ current_error_signature' = <<>>
    /\ escalation' = NoEscalation
    /\ full_prompt_with_error' = NoPrompt
    /\ llm_response' = <<>>
    /\ code_changes' = <<>>
    /\ code_before_change' = <<>>
    /\ change_summary' = <<>>
    /\ pc' = "run"
    /\ UNCHANGED <<config, constant_error_count, last_error_signature,
                   error_exists, disk, exception, history>>

\* Lines 311-312: what is logged when the loop has ended.
BudgetReached == attempt_count >= max_attempts

Finish ==
    /\ pc = "loop"
    /\ ~LoopCondition
    /\ log' = IF BudgetReached THEN Append(log, Msg("max_reached", 0)) ELSE log
    /\ pc' = "done"
    /\ UNCHANGED <<config, attempt_state, locals, disk, exception, history>>

\* Lines 252-256: run every target file, build the signature.
RunFiles ==
    /\ pc = "run"
    /\ \E runs \in ExecutorRuns :
        /\ error_messages' = runs
        /\ current_error_signature' = ErrorSignature(runs)
        /\ executed' = executed \cup RunSet(runs)
    /\ pc' = "track"
    /\ UNCHANGED <<config, attempt_state, error_exists, escalation,
                   full_prompt_with_error, llm_response, code_changes, code_before_change,
                   change_summary, disk, log, exception, streak, escalated_at>>

\* Lines 258-262: the tracker.
SameErrorEvenIfEmpty == current_error_signature = last_error_signature

SameError == current_error_signature = last_error_signature
                /\ current_error_signature # <<>>

Track ==
    /\ pc = "track"
    /\ IF SameError
       THEN /\ constant_error_count' = constant_error_count + 1
            /\ UNCHANGED last_error_signature
       ELSE /\ constant_error_count' = 0
            /\ last_error_signature' = current_error_signature
    /\ streak' = IF current_error_signature = <<>> THEN NoStreak
                 ELSE IF current_error_signature = last_error_signature
                      THEN [streak EXCEPT !.len = @ + 1]
                      ELSE [len |-> 1, escalations |-> 0]
    /\ pc' = "decide"
    /\ UNCHANGED <<config, attempt_count, locals, disk, log, exception, executed,
                   escalated_at>>

\* Line 264: the escalation trigger.
TriggerAboveThreshold ==
    enable_internet_search /\ constant_error_count > internet_search_threshold

TriggerOneEarly ==
    enable_internet_search /\ constant_error_count >= internet_search_threshold - 1

TriggerIgnoringSwitch == constant_error_count >= internet_search_threshold

EscalationTrigger ==
    enable_internet_search /\ constant_error_count >= internet_search_threshold

\* Line 270: the counter after an escalation.
CountKeptAfterEscalation == constant_error_count

CountAfterEscalation == 0

\* Lines 199-208: the model call of the query generation raises; the
\* exception leaves debug().
EscalateQueryCallFails ==
    /\ pc = "decide"
    /\ EscalationTrigger
    /\ \E runs \in ExecutorRuns :
        /\ executed' = executed \cup RunSet(runs)
        /\ escalation' = [NoEscalation EXCEPT
                              !.ran = TRUE,
                              !.query_sections =
                                  SectionNames(ConstructPrompt(<<>>, runs))]
    /\ log' = Append(log, Msg("same_error", internet_search_threshold))
    /\ streak' = [streak EXCEPT !.escalations = @ + 1]
    /\ escalated_at' = escalated_at \cup {attempt_count}
    /\ exception' = [type |-> "LLMError", file |-> "none"]
    /\ pc' = "aborted"
    /\ UNCHANGED <<config, attempt_state, error_exists, error_messages,
                   current_error_signature, full_prompt_with_error,
                   llm_response, code_changes, code_before_change,
                   change_summary, disk>>

\* Lines 265-270 after a query came out of `reply`: search, fetch, prompt with
\* the content, counter reset.
SearchAndPrompt(reply) ==
    /\ \E runs1 \in ExecutorRuns, runs2 \in ExecutorRuns, found \in SearchResults :
        LET urls == UrlsToFetch(enable_internet_search, found, num_search_urls)
        IN \E pages \in [1..Len(urls) -> FetchOutcomes] :
            LET got == FetchInternetContent(enable_internet_search, found,
                                            pages, num_search_urls)
            IN /\ escalation' =
                    [ran |-> TRUE,
                     query_sections |-> SectionNames(ConstructPrompt(<<>>, runs1)),
                     reply |-> reply, query |-> TRUE,
                     searched |-> got.searched, none |-> got.none,
                     urls |-> got.urls, fetched |-> got.fetched,
                     pages |-> got.pages, content |-> got.content]
               /\ full_prompt_with_error' = ConstructPrompt(got.content, runs2)
               /\ executed' = executed \cup RunSet(runs1) \cup RunSet(runs2)
    /\ log' = log \o <<Msg("same_error", internet_search_threshold),
                       Msg("generated_query", 0)>>
    /\ constant_error_count' = CountAfterEscalation
    /\ streak' = [streak EXCEPT !.escalations = @ + 1]
    /\ escalated_at' = escalated_at \cup {attempt_count}
    /\ pc' = "llm"
    /\ UNCHANGED <<config, attempt_count, last_error_signature, error_exists,
                   error_messages, current_error_signature, llm_response,
                   code_changes, code_before_change, change_summary, disk,
                   exception>>

\* A query generation that goes on with a made-up query when the reply lacks
\* the pattern.
EscalateWithGuessedQuery ==
    /\ pc = "decide"
    /\ EscalationTrigger
    /\ \E reply \in QueryReplies : ~HasSearchQuery(reply) /\ SearchAndPrompt(reply)

\* Lines 199-210: the reply of the query generation lacks the pattern,
\* re.search returns None and .group raises AttributeError; the exception
\* leaves debug().
EscalateQueryFails ==
    /\ pc = "decide"
    /\ EscalationTrigger
    /\ \E runs \in ExecutorRuns, reply \in QueryReplies :
        /\ ~HasSearchQuery(reply)
        /\ executed' = executed \cup RunSet(runs)
        /\ escalation' = [NoEscalation EXCEPT
                              !.ran = TRUE,
                              !.query_sections =
                                  SectionNames(ConstructPrompt(<<>>, runs)),
                              !.reply = reply]
    /\ log' = Append(log, Msg("same_error", internet_search_threshold))
    /\ streak' = [streak EXCEPT !.escalations = @ + 1]
    /\ escalated_at' = escalated_at \cup {attempt_count}
    /\ exception' = [type |-> "AttributeError", file |-> "none"]
    /\ pc' = "aborted"
    /\ UNCHANGED <<config, attempt_state, error_exists, error_messages,
                   current_error_signature, full_prompt_with_error,
                   llm_response, code_changes, code_before_change,
                   change_summary, disk>>

\* Lines 264-270: query generation, search, fetch, prompt with the content,
\* counter reset.
Escalate ==
    /\ pc = "decide"
    /\ EscalationTrigger
    /\ \E reply \in QueryReplies : HasSearchQuery(reply) /\ SearchAndPrompt(reply)

\* Lines 272-273: the prompt without research content.
PlainPrompt ==
    /\ pc = "decide"
    /\ ~EscalationTrigger
    /\ \E runs \in ExecutorRuns :
        /\ full_prompt_with_error' = ConstructPrompt(<<>>, runs)
        /\ executed' = executed \cup RunSet(runs)
    /\ pc' = "llm"
    /\ UNCHANGED <<config, attempt_state, error_exists, error_messages,
                   current_error_signature, escalation, llm_response, code_changes,
                   code_before_change, change_summary, disk, log, exception,
                   streak, escalated_at>>

\* Lines 275-276: the model call and the parse of its reply. The prompt is
\* handed over and, like the URLs and the research content it was built from,
\* not read again.
CallLLM ==
    /\ pc = "llm"
    /\ \E reply \in Responses :
        /\ llm_response' = reply
        /\ code_changes' = ExtractCodeFromLlmResponse(reply)
    /\ full_prompt_with_error' = NoPrompt
    /\ escalation' = [escalation EXCEPT !.query_sections = <<>>, !.reply = <<>>,
                                        !.urls = <<>>, !.fetched = <<>>,
                                        !.pages = <<>>, !.content = <<>>]
    /\ pc' = "read"
    /\ UNCHANGED <<config, attempt_state, error_exists, error_messages,
                   current_error_signature, code_before_change,
                   change_summary, disk, log, exception, history>>

\* generate_response raises (the providers of src/llms do not catch).
CallLLMFails ==
    /\ pc = "llm"
    /\ exception' = [type |-> "LLMError", file |-> "none"]
    /\ pc' = "aborted"
    /\ UNCHANGED <<config, attempt_state, locals, disk, log, history>>

\* Lines 279-282: the files of the change set that open(..., "r") finds.
Readable(filename) == filename \in DOMAIN disk

\* The place of the first file of the change set whose read raises, 0 if none.
FirstUnreadable ==
    LET bad == {i \in 1..Len(code_changes) : ~Readable(code_changes[i][1])}
    IN IF bad = {} THEN 0 ELSE CHOOSE i \in bad : \A j \in bad : i <= j

\* The disk after the first n files of the change set were written.
RECURSIVE WriteLoop(_, _)
WriteLoop(d, n) ==
    IF n = 0 THEN d
    ELSE LET before == WriteLoop(d, n - 1)
         IN [f \in DOMAIN before \cup {code_changes[n][1]} |->
                IF f = code_changes[n][1] THEN code_changes[n][2] ELSE before[f]]

\* A read loop that writes each file right after reading it.
ReadAndWriteEach ==
    /\ pc = "read"
    /\ IF FirstUnreadable = 0
       THEN /\ code_before_change' =
                   [i \in 1..Len(code_changes) |->
                       <<code_changes[i][1], disk[code_changes[i][1]]>>]
            /\ disk' = WriteLoop(disk, Len(code_changes))
            /\ pc' = "write"
            /\ UNCHANGED exception
       ELSE /\ code_before_change' =
                   [i \in 1..(FirstUnreadable - 1) |->
                       <<code_changes[i][1], disk[code_changes[i][1]]>>]
            /\ disk' = WriteLoop(disk, FirstUnreadable - 1)
            /\ exception' = [type |-> "FileNotFoundError",
                             file |-> code_changes[FirstUnreadable][1]]
            /\ pc' = "aborted"
    /\ llm_response' = <<>>
    /\ UNCHANGED <<config, attempt_state, error_exists, error_messages,
                   current_error_signature, escalation, full_prompt_with_error,
                   code_changes, change_summary, log, history>>

ReadBefore ==
    /\ pc = "read"
    /\ IF FirstUnreadable = 0
       THEN /\ code_before_change' =
                   [i \in 1..Len(code_changes) |->
                       <<code_changes[i][1], disk[code_changes[i][1]]>>]
            /\ pc' = "write"
            /\ UNCHANGED exception
       ELSE /\ code_before_change' =
                   [i \in 1..(FirstUnreadable - 1) |->
                       <<code_changes[i][1], disk[code_changes[i][1]]>>]
            /\ exception' = [type |-> "FileNotFoundError",
                             file |-> code_changes[FirstUnreadable][1]]
            /\ pc' = "aborted"
    /\ llm_response' = <<>>
    /\ UNCHANGED <<config, attempt_state, error_exists, error_messages,
                   current_error_signature, escalation, full_prompt_with_error,
                   code_changes, change_summary, disk, log, history>>

\* Lines 175-184, line 285: every file of the change set is written.
UpdateCodeFiles ==
    /\ pc = "write"
    /\ disk' = WriteLoop(disk, Len(code_changes))
    /\ pc' = "summary"
    /\ UNCHANGED <<config, attempt_state, locals, log, exception, history>>

\* Lines 182-184: the open(..., "w") of the k-th file raises (a file or a
\* directory that cannot be written); the files before it are written.
UpdateCodeFilesFails ==
    /\ pc = "write"
    /\ \E k \in 1..Len(code_changes) :
        /\ disk' = WriteLoop(disk, k - 1)
        /\ exception' = [type |-> "PermissionError", file |-> code_changes[k][1]]
    /\ pc' = "aborted"
    /\ UNCHANGED <<config, attempt_state, locals, log, history>>

\* A summary that compares the contents as they are, untrimmed.
RECURSIVE SummaryLoopUntrimmed(_)
SummaryLoopUntrimmed(n) ==
    IF n = 0 THEN <<>>
    ELSE LET filename == code_changes[n][1]
             new_code == code_changes[n][2]
         IN IF filename \in DictKeys(code_before_change)
               /\ DictGet(code_before_change, filename) # new_code
            THEN Append(SummaryLoopUntrimmed(n - 1), filename)
            ELSE SummaryLoopUntrimmed(n - 1)

\* Lines 288-295: the files that get an entry in change_summary, in order.
RECURSIVE SummaryLoop(_)
SummaryLoop(n) ==
    IF n = 0 THEN <<>>
    ELSE LET filename == code_changes[n][1]
             new_code == code_changes[n][2]
         IN IF filename \in DictKeys(code_before_change)
               /\ Strip(DictGet(code_before_change, filename)) # Strip(new_code)
            THEN Append(SummaryLoop(n - 1), filename)
            ELSE SummaryLoop(n - 1)

\* Lines 288-301. The change set and the retained contents are not read again.
Summarize ==
    /\ pc = "summary"
    /\ change_summary' = SummaryLoop(Len(code_changes))
    /\ log' = Append(log, IF change_summary' # <<>>
                          THEN Msg("changes", 0)
                          ELSE Msg("no_changes", 0))
    /\ code_changes' = <<>>
    /\ code_before_change' = <<>>
    /\ pc' = "recheck"
    /\ UNCHANGED <<config, attempt_state, error_exists, error_messages,
                   current_error_signature, escalation, full_prompt_with_error,
                   llm_response, disk, exception, history>>

\* _check_for_errors (lines 186-197) stops at the first failing file: the
\* outputs it saw are those up to that file.
FirstFailing(runs) ==
    LET bad == {i \in 1..Len(runs) : HasTraceback(runs[i])}
    IN IF bad = {} THEN 0 ELSE CHOOSE i \in bad : \A j \in bad : i <= j

\* Lines 304-309.
Recheck ==
    /\ pc = "recheck"
    /\ \E runs \in ExecutorRuns :
        /\ error_exists' = (FirstFailing(runs) # 0)
        /\ executed' = executed \cup
               {runs[i] : i \in 1..(IF FirstFailing(runs) = 0
                                    THEN Len(runs) ELSE FirstFailing(runs))}
    /\ log' = Append(log, IF error_exists'
                          THEN Msg("error_still_exists", 0)
                          ELSE Msg("all_errors_fixed", 0))
    /\ pc' = "loop"
    /\ UNCHANGED <<config, attempt_state, error_messages,
                   current_error_signature, escalation, full_prompt_with_error,
                   llm_response, code_changes, code_before_change, change_summary, disk,
                   exception, streak, escalated_at>>

Next ==
    \/ BeginAttempt
    \/ Finish
    \/ RunFiles
    \/ Track
    \/ EscalateQueryCallFails
    \/ EscalateQueryFails
    \/ Escalate
    \/ PlainPrompt
    \/ CallLLM
    \/ CallLLMFails
    \/ ReadBefore
    \/ UpdateCodeFiles
    \/ UpdateCodeFilesFails
    \/ Summarize
    \/ Recheck

Spec == Init /\ [][Next]_vars

\* Every call made by debug() returns or raises: a step that can be taken is
\* taken.
FairSpec == Spec /\ WF_vars(Next)

\* ------------------------------------------- _fetch_internet_content alone

\* A debugger about to call _fetch_internet_content, for every setting of the
\* switch and of num_search_urls up to MaxNumUrls.
InitFetch ==
    /\ max_attempts = MaxAttemptsBound
    /\ files_to_debug = <<"a.py">>
    /\ enable_internet_search \in BOOLEAN
    /\ num_search_urls \in 0..MaxNumUrls
    /\ internet_search_threshold = 0
    /\ attempt_count = 1
    /\ constant_error_count = 0
    /\ last_error_signature = OutE1
    /\ error_exists = TRUE
    /\ error_messages = <<OutE1>>
    /\ current_error_signature = OutE1
    /\ escalation = [NoEscalation EXCEPT !.ran = TRUE, !.query = TRUE]
    /\ full_prompt_with_error = NoPrompt
    /\ llm_response = <<>>
    /\ code_changes = <<>>
    /\ code_before_change = <<>>
    /\ change_summary = <<>>
    /\ disk = [f \in {"a.py"} |-> SrcXnl]
    /\ log = <<>>
    /\ exception = NoException
    /\ pc = "fetch"
    /\ executed = {}
    /\ streak = NoStreak
    /\ escalated_at = {}

\* Line 268: one call of _fetch_internet_content.
FetchContent ==
    /\ pc = "fetch"
    /\ \E found \in SearchResults :
        LET urls == UrlsToFetch(enable_internet_search, found, num_search_urls)
        IN \E pages \in [1..Len(urls) -> FetchOutcomes] :
            LET got == FetchInternetContent(enable_internet_search, found,
                                            pages, num_search_urls)
            IN escalation' = [escalation EXCEPT
                                 !.searched = got.searched, !.none = got.none,
                                 !.urls = got.urls, !.fetched = got.fetched,
                                 !.pages = got.pages, !.content = got.content]
    /\ pc' = "fetched"
    /\ UNCHANGED <<config, attempt_state, error_exists, error_messages,
                   current_error_signature, full_prompt_with_error, llm_response,
                   code_changes, code_before_change, change_summary, disk, log,
                   exception, history>>

NextFetch == FetchContent

SpecFetch == InitFetch /\ [][NextFetch]_vars

\* ------------------------------------------------------------------ claims

Logged(m) == \E i \in 1..Len(log) : log[i].msg = m

LastLine == log[Len(log)].msg

\* C1: a session that ran to its end logged "fixed" iff its last re-check found
\* no failure, logged "exhausted" iff attempt_count = max_attempts with failures
\* remaining, and never logged both.
C1_OutcomesExclusive ==
    pc = "done" =>
        /\ Logged("all_errors_fixed") <=> (attempt_count >= 1 /\ ~error_exists)
        /\ Logged("max_reached") <=> (attempt_count = max_attempts /\ error_exists)
        /\ ~(Logged("all_errors_fixed") /\ Logged("max_reached"))

\* C2: the last log line of a finished session is the "fixed" report whenever
\* the final re-check found no failure, and the "exhausted" report only when
\* failures remain.
C2_LastLineIsFinalState ==
    (pc = "done" /\ attempt_count >= 1) =>
        /\ ~error_exists => LastLine = "all_errors_fixed"
        /\ LastLine = "max_reached" => error_exists

\* Scenario A: one target that fails with the same text on every execution,
\* search enabled, max_attempts = 3, internet_search_threshold = 2.
ScenarioA ==
    /\ files_to_debug = <<"a.py">>
    /\ enable_internet_search
    /\ max_attempts = 3
    /\ internet_search_threshold = 2
    /\ executed \subseteq {OutE1}

\* C3 as stated: in scenario A escalation triggers at attempt 2 and the
\* session ends exhausted after attempt 3.
C3_ScenarioAEscalatesAtTwo ==
    (ScenarioA /\ pc = "done") =>
        /\ 2 \in escalated_at
        /\ attempt_count = 3
        /\ error_exists
        /\ Logged("max_reached")

\* C3, amended: in scenario A escalation triggers at attempt 3 and at no other
\* attempt, and a session that runs to its end ends exhausted after attempt 3.
C3_ScenarioAEscalatesAtThree ==
    ScenarioA =>
        /\ escalated_at \subseteq {3}
        /\ (attempt_count = 3 /\ pc \notin {"run", "track", "decide"})
                => 3 \in escalated_at
        /\ pc = "done" =>
                /\ attempt_count = 3
                /\ error_exists
                /\ LastLine = "max_reached"
                /\ ~Logged("all_errors_fixed")

C3_Witness == ScenarioA /\ pc = "done" /\ escalated_at = {3}

\* C4 as stated: in a run of identical non-empty signatures at least threshold
\* long, escalation has triggered once per full window of threshold
\* iterations, and the counter is 0 right after an escalation whatever was
\* fetched.
C4_OncePerThresholdWindow ==
    /\ (/\ pc # "decide"
        /\ enable_internet_search
        /\ internet_search_threshold >= 1
        /\ streak.len >= internet_search_threshold)
            => streak.escalations = streak.len \div internet_search_threshold
    /\ (pc = "llm" /\ escalation.ran) => constant_error_count = 0

\* C4, amended: the windows start after the first iteration of the run: after
\* L iterations of a run, (L - 1) div threshold escalations have triggered;
\* the counter is 0 right after an escalation whatever was fetched.
C4_OncePerWindowAfterFirst ==
    /\ (/\ pc # "decide"
        /\ enable_internet_search
        /\ internet_search_threshold >= 1
        /\ streak.len >= 1)
            => streak.escalations = (streak.len - 1) \div internet_search_threshold
    /\ (pc = "llm" /\ escalation.ran) => constant_error_count = 0

C4_Witness ==
    /\ pc = "llm"
    /\ internet_search_threshold = 2
    /\ streak = [len |-> 5, escalations |-> 2]
    /\ escalation.ran
    /\ escalation.content = <<>>
    /\ constant_error_count = 0

\* C5 as stated: no two consecutive iterations of one streak both escalate.
C5_NeverTwiceInARow ==
    ~(/\ streak.len >= 2
      /\ attempt_count \in escalated_at
      /\ (attempt_count - 1) \in escalated_at)

\* C5, amended: two escalations are at least internet_search_threshold
\* iterations apart, and for a threshold of 1 or more an escalating iteration
\* ends a run of more than threshold equal signatures; so for a threshold of 2
\* or more no two consecutive iterations escalate.
C5_EscalationsThresholdApart ==
    /\ \A m \in escalated_at : \A n \in escalated_at :
          m < n => n - m >= internet_search_threshold
    /\ (attempt_count \in escalated_at /\ internet_search_threshold >= 1)
          => streak.len >= internet_search_threshold + 1

C5_Witness ==
    /\ internet_search_threshold = 2
    /\ escalated_at = {3, 5}
    /\ streak.len = 5

\* C6 as stated: an iteration whose target files all ran clean has the counter
\* at 0 after the tracker and does not run the escalator.
C6_CleanRunNeverEscalates ==
    (pc \notin {"run", "track"} /\ current_error_signature = <<>>) =>
        /\ constant_error_count = 0
        /\ ~escalation.ran

\* C6, amended: such an iteration has the counter at 0 after the tracker, and
\* does not run the escalator when internet_search_threshold is 1 or more or
\* search is disabled.
C6_CleanRunResetsCounter ==
    (pc \notin {"run", "track"} /\ current_error_signature = <<>>) =>
        /\ constant_error_count = 0
        /\ (internet_search_threshold >= 1 \/ ~enable_internet_search)
                => ~escalation.ran

C6_Witness ==
    /\ pc = "llm"
    /\ enable_internet_search
    /\ internet_search_threshold = 1
    /\ attempt_count = 3
    /\ escalated_at = {2}
    /\ error_messages = <<OutClean, OutClean>>
    /\ constant_error_count = 0

\* The failure texts of the files that failed, in target-set order, joined.
RECURSIVE Join(_)
Join(texts) == IF texts = <<>> THEN <<>> ELSE Head(texts) \o Join(Tail(texts))

FailureTexts == SelectSeq(error_messages, HasTraceback)

C8_EscalatorIffTrigger ==
    [][/\ pc = "decide" =>
            (escalation'.ran <=>
                (enable_internet_search
                 /\ constant_error_count >= internet_search_threshold))
       /\ ~enable_internet_search =>
            /\ escalation' = NoEscalation
            /\ escalated_at' = {}
       /\ (escalation'.query \/ escalation'.searched \/ escalation'.fetched # <<>>)
            => escalation'.ran]_vars

C8_Witness ==
    /\ pc = "llm"
    /\ internet_search_threshold = 2
    /\ escalation.ran /\ escalation.query /\ escalation.searched
    /\ escalation.fetched # <<>>
    /\ constant_error_count = 0

\* C9: a change set naming a file that is not on disk is read as empty content
\* and goes on to be written.
C9_NetNewFileReadAsEmpty ==
    [][(pc = "read" /\ \E i \in 1..Len(code_changes) : code_changes[i][1] \notin DOMAIN disk)
        => /\ pc' = "write"
           /\ \A i \in 1..Len(code_changes) :
                code_changes[i][1] \notin DOMAIN disk
                    => DictGet(code_before_change', code_changes[i][1]) = <<>>]_vars

\* C10: when the read or the write of one file of the change set fails, every
\* other file of the change set is still written.
C10_OtherFilesStillApplied ==
    (pc = "aborted" /\ exception.type \in {"FileNotFoundError", "PermissionError"}) =>
        \A i \in 1..Len(code_changes) :
            code_changes[i][1] # exception.file =>
                /\ code_changes[i][1] \in DOMAIN disk
                /\ disk[code_changes[i][1]] = code_changes[i][2]

\* The files of the target set.
TargetFiles == RunSet(files_to_debug)

\* C11: a block of the reply for a file outside the target set is in the
\* change set, and once the applier is over that file is on disk with the
\* proposed content.
C11_NonTargetBlockIsWritten ==
    /\ pc = "read" =>
            \A i \in 1..Len(llm_response) :
                (llm_response[i].matches /\ llm_response[i].name \notin TargetFiles)
                    => llm_response[i].name \in DictKeys(code_changes)
    /\ pc \in {"summary", "aborted"} =>
            \A i \in 1..Len(code_changes) :
                code_changes[i][1] \notin TargetFiles =>
                    /\ code_changes[i][1] \in DOMAIN disk
                    /\ disk[code_changes[i][1]] = code_changes[i][2]

\* C12: when the reply of the query generation lacks the pattern, the failure
\* leaves the session: no query, no search, no fetch, no fix prompt, no write,
\* the counter is not reset, and nothing happens afterwards.
C12_QueryParseFailurePropagates ==
    [][/\ (/\ ~escalation.ran
           /\ escalation'.ran
           /\ escalation'.reply # <<>>
           /\ ~HasSearchQuery(escalation'.reply))
            => /\ pc' = "aborted"
               /\ exception'.type = "AttributeError"
               /\ ~escalation'.query
               /\ ~escalation'.searched
               /\ escalation'.fetched = <<>>
               /\ full_prompt_with_error' = NoPrompt
               /\ disk' = disk
               /\ constant_error_count' = constant_error_count
       /\ pc # "aborted"]_vars

C12_Witness ==
    /\ pc = "aborted"
    /\ exception.type = "AttributeError"
    /\ escalation.ran
    /\ escalation.reply = <<"prose">>
    /\ internet_search_threshold = 2
    /\ constant_error_count = 2
    /\ attempt_count = 3

\* The iteration's escalation searched and got no URL: an empty list, or None
\* because the search raised.
SearchFoundNothing ==
    escalation.ran /\ escalation.searched /\ escalation.urls = <<>>

\* C13: when the search yields no URL, no page is fetched, the fix prompt has
\* no research section, the counter is reset to 0, nothing is raised and the
\* iteration goes on to the model call.
C13_NoUrlsIsNoOp ==
    (pc = "llm" /\ SearchFoundNothing) =>
        /\ escalation.fetched = <<>>
        /\ escalation.pages = <<>>
        /\ escalation.content = <<>>
        /\ "internet" \notin RunSet(SectionNames(full_prompt_with_error))
        /\ SectionNames(full_prompt_with_error) = <<"tree", "code", "errors">>
        /\ constant_error_count = 0
        /\ exception = NoException
        /\ ENABLED CallLLM

\* The search raised (None) and the iteration still reached its re-check.
C13_Witness ==
    /\ pc = "recheck"
    /\ escalation.ran /\ escalation.searched /\ escalation.none
    /\ internet_search_threshold = 2
    /\ constant_error_count = 0
    /\ disk["a.py"] = SrcY

\* The search returned an empty list and the fix prompt is about to be sent.
C13_WitnessEmptyList ==
    /\ pc = "llm"
    /\ SearchFoundNothing /\ ~escalation.none
    /\ internet_search_threshold = 2

\* The places, among the URLs that were fetched, of the fetches that returned
\* a page.
FetchedPages == {i \in 1..Len(escalation.fetched) : escalation.pages[i] # "raise"}

C15_NoEntryForTrimmedEqual ==
    [][pc = "summary" =>
        /\ RunSet(change_summary') \subseteq DictKeys(code_changes)
        /\ \A i \in 1..Len(code_changes) :
            LET filename == code_changes[i][1]
            IN filename \in RunSet(change_summary') =>
                /\ filename \in DictKeys(code_before_change)
                /\ Strip(DictGet(code_before_change, filename))
                        # Strip(code_changes[i][2])]_vars

\* a.py held "x" and a newline, the first reply proposed "x": the file was
\* written and the summary has no entry.
C15_Witness ==
    /\ pc = "recheck"
    /\ attempt_count = 1
    /\ disk["a.py"] = SrcX
    /\ change_summary = <<>>
    /\ Logged("no_changes")

\* C16: a re-check that finds no failure leaves the loop test as the only
\* thing ahead; the one step that follows ends the session and changes
\* nothing but the log and the position: no iteration, no executor run, no
\* model call, no write, and attempt_count, constant_error_count and
\* last_error_signature keep their values (1 for attempt_count when the
\* first re-check passed).
C16_FixedIsTerminal ==
    [][/\ ~error_exists =>
            /\ pc = "loop"
            /\ pc' = "done"
            /\ UNCHANGED <<config, attempt_state, locals, disk, exception, history>>
       /\ ~error_exists' => pc' \in {"loop", "done"}
       /\ pc # "done"]_vars

\* The first re-check passed with budget left, and the session is over.
C16_Witness ==
    /\ pc = "done"
    /\ ~error_exists
    /\ attempt_count = 1
    /\ max_attempts >= 2
    /\ exception = NoException

\* The places of the blocks of the reply that the pattern matches and that
\* name `filename`.
BlocksFor(filename) ==
    {i \in 1..Len(llm_response) :
        llm_response[i].matches /\ llm_response[i].name = filename}

\* C17: the change set has exactly one entry per filename named by a matching
\* block of the reply, and the entry holds the trimmed code of the last block
\* for that filename.
C17_LastBlockWins ==
    pc = "read" =>
        /\ Len(code_changes) = Cardinality(DictKeys(code_changes))
        /\ DictKeys(code_changes) = {f \in FileNames : BlocksFor(f) # {}}
        /\ \A f \in DictKeys(code_changes) :
            LET last == CHOOSE i \in BlocksFor(f) : \A j \in BlocksFor(f) : j <= i
            IN DictGet(code_changes, f) = Strip(llm_response[last].code)

\* Two blocks for a.py with different code: the change set holds the second.
C17_Witness ==
    /\ pc = "read"
    /\ Len(llm_response) = 2
    /\ BlocksFor("a.py") = {1, 2}
    /\ llm_response[1].code = SrcY
    /\ llm_response[2].code = SrcXnl
    /\ code_changes = <<<<"a.py", SrcX>>>>

\* C18: a reply in which the pattern matches nothing gives an empty change
\* set; with an empty change set no file is read or written, nothing is
\* raised, the summary is empty, "no changes" is logged and the iteration
\* goes on to its re-check.
C18_NoBlocksIsNoChange ==
    [][/\ (pc = "read" /\ \A i \in 1..Len(llm_response) : ~llm_response[i].matches)
            => code_changes = <<>>
       /\ (pc \in {"read", "write", "summary"} /\ code_changes = <<>>) =>
            /\ disk' = disk
            /\ code_before_change' = <<>>
            /\ exception' = NoException
            /\ pc' = (CASE pc = "read" -> "write"
                         [] pc = "write" -> "summary"
                         [] pc = "summary" -> "recheck")
            /\ pc = "summary" =>
                    /\ change_summary' = <<>>
                    /\ log'[Len(log')].msg = "no_changes"]_vars

\* The first reply had no block: the re-check is next, "no changes" is
\* logged and every file is as it was.
C18_Witness ==
    /\ pc = "recheck"
    /\ attempt_count = 1
    /\ Logged("no_changes")
    /\ change_summary = <<>>
    /\ \A f \in DOMAIN disk : disk[f] = SrcXnl

\* C19: a fix prompt has a research section only in an iteration whose
\* escalation ran and retrieved content; the section is then the first one,
\* before the tree, the file contents and the failure reports, and holds
\* that content; the prompt of the query generation has no research section.
C19_ResearchOnlyWhenRetrieved ==
    /\ pc = "llm" =>
        LET names == SectionNames(full_prompt_with_error)
        IN IF escalation.ran /\ escalation.content # <<>>
           THEN /\ names = <<"internet", "tree", "code", "errors">>
                /\ full_prompt_with_error[1].body = escalation.content
           ELSE names = <<"tree", "code", "errors">>
    /\ "internet" \notin RunSet(escalation.query_sections)
    /\ (escalation.ran /\ (pc = "llm" \/ (pc = "aborted" /\ ~escalation.query))) =>
            escalation.query_sections = <<"tree", "code", "errors">>

\* Second escalation of a session at threshold 2: the prompt holds what this
\* iteration fetched.
C19_Witness ==
    /\ pc = "llm"
    /\ internet_search_threshold = 2
    /\ Cardinality(escalated_at) = 2
    /\ escalation.ran
    /\ escalation.content = <<[url |-> "u1", text |-> "page2"]>>
    /\ full_prompt_with_error[1] = [section |-> "internet", body |-> escalation.content]

\* An iteration after an escalation that retrieved content: no research
\* section in its prompt.
C19_WitnessNextIteration ==
    /\ pc = "llm"
    /\ internet_search_threshold = 2
    /\ escalated_at = {3}
    /\ attempt_count = 4
    /\ ~escalation.ran
    /\ SectionNames(full_prompt_with_error) = <<"tree", "code", "errors">>

Terminated == pc \in {"done", "aborted"}

\* How many steps the session has left at most: ten per iteration of the
\* budget not yet begun, and the steps left in the current iteration.
StepsLeft ==
    (max_attempts - attempt_count) * 10
        + (CASE pc = "run" -> 9 [] pc = "track" -> 8 [] pc = "decide" -> 7
             [] pc = "llm" -> 6 [] pc = "read" -> 5 [] pc = "write" -> 4
             [] pc = "summary" -> 3 [] pc = "recheck" -> 2 [] pc = "loop" -> 1
             [] OTHER -> 0)

\* C20: attempt_count stays within 0..max_attempts; it changes only at the
\* start of an iteration, by exactly 1; a session that has not ended can
\* take a step, and every step brings it closer to its end: it ends, after
\* at most max_attempts iterations.
C20_AttemptsBoundedAndTerminates ==
    /\ [](attempt_count \in 0..max_attempts)
    /\ [](~Terminated => ENABLED Next)
    /\ [][/\ IF pc = "loop" /\ pc' = "run"
             THEN attempt_count' = attempt_count + 1
             ELSE attempt_count' = attempt_count
          /\ StepsLeft' < StepsLeft
          /\ StepsLeft' >= 0]_vars

\* C20, the end as a temporal property: when every step that can be taken is
\* taken (FairSpec), the session ends and stays ended.
C20_EventuallyTerminated == <>[](Terminated /\ attempt_count <= max_attempts)

\* A session that used its whole budget of MaxAttemptsBound iterations and
\* ended with the failure still there.
C20_Witness ==
    /\ pc = "done"
    /\ max_attempts = MaxAttemptsBound
    /\ attempt_count = max_attempts
    /\ error_exists

\* The session ended with its last re-check finding no failure.
Succeeded == pc = "done" /\ ~error_exists

\* C21: with max_attempts >= 1 the first step of the session starts an
\* iteration, whatever the files do, and an iteration goes from the executor
\* runs to the model call whatever the runs returned; a session ends
\* successfully only after an iteration that called the model and applied
\* its change set (its log holds the line of the change summary).
C21_FirstIterationUnconditional ==
    /\ [](~error_exists =>
            /\ attempt_count >= 1
            /\ Logged("changes") \/ Logged("no_changes"))
    /\ []((pc = "done" /\ max_attempts >= 1) => attempt_count >= 1)
    /\ [][/\ (pc = "loop" /\ attempt_count = 0 /\ max_attempts >= 1) => pc' = "run"
          /\ pc = "run" => pc' = "track"
          /\ pc = "track" => pc' = "decide"
          /\ (pc = "decide" /\ ~EscalationTrigger) => pc' = "llm"
          /\ (pc = "write" /\ pc' = "summary") =>
                \A i \in 1..Len(code_changes) :
                    disk'[code_changes[i][1]] = code_changes[i][2]]_vars

\* No run of a.py ever failed, the one iteration still rewrote it, and the
\* session succeeded.
C21_Witness ==
    /\ Succeeded
    /\ files_to_debug = <<"a.py">>
    /\ attempt_count = 1
    /\ executed = {OutClean}
    /\ disk["a.py"] = SrcY
    /\ Logged("changes")

\* C22: the disk changes only in the write step, which comes after the read
\* of every file of the change set succeeded; the read step changes no file,
\* so a session that a failing read ended has written no file of that change
\* set.
C22_ReadsBeforeWrites ==
    [][/\ disk' # disk =>
            /\ pc = "write"
            /\ Len(code_before_change) = Len(code_changes)
            /\ \A i \in 1..Len(code_changes) :
                code_before_change[i] = <<code_changes[i][1], disk[code_changes[i][1]]>>
       /\ pc = "read" =>
            /\ disk' = disk
            /\ pc' = "aborted" =>
                    /\ exception'.type = "FileNotFoundError"
                    /\ exception'.file \in DictKeys(code_changes)]_vars

\* The change set is a.py then b.py, b.py is missing: the read of b.py
\* failed and a.py still holds what it held.
C22_Witness ==
    /\ pc = "aborted"
    /\ exception = [type |-> "FileNotFoundError", file |-> "b.py"]
    /\ attempt_count = 1
    /\ Len(code_changes) = 2
    /\ code_changes[1] = <<"a.py", SrcY>>
    /\ code_before_change = <<<<"a.py", SrcXnl>>>>
    /\ disk["a.py"] = SrcXnl

\* The failure reports of the fix prompt: its last section.
PromptReports == full_prompt_with_error[Len(full_prompt_with_error)].body

\* C23: the failure reports of the prompt about to be sent are those of the
\* outputs the iteration's signature was built from: a report with the text
\* for each file whose output had a traceback, "no error" for the others.
C23_PromptReportsAreSignatureTexts ==
    pc = "llm" =>
        /\ Len(PromptReports) = Len(files_to_debug)
        /\ \A i \in 1..Len(files_to_debug) :
            PromptReports[i] = ErrorReport(files_to_debug[i], error_messages[i])

====
